---- MODULE Spec2Model ----
(***************************************************************************)
(* Channel history pagination (ChannelHistory) and bulk purge              *)
(* (MessageableMixin.purge) of dis_snek/models/discord/channel.py.         *)
(*                                                                         *)
(* A message is a record [id, author, flags].  A snowflake id is the       *)
(* integer (timestamp << 22) + low bits, the timestamp being milliseconds  *)
(* since the Discord epoch.  The clock read by purge is kept as            *)
(* milliseconds since the Discord epoch plus a sub-millisecond part, so    *)
(* that int() of the source truncates something.                           *)
(***************************************************************************)
EXTENDS Integers, Sequences, FiniteSets, TLC

\* ------------------------------------------------------------------ bounds
\* size of the largest channel explored
MaxMsgs == 201
\* number of distinct millisecond timestamps the messages of a channel carry
MaxTs == 3
\* how many changes by others a channel undergoes during one iteration
MaxChanges == 2

\* ------------------------------------------------------- program constants
\* MISSING / None: an absent cursor, an absent limit, no last object (falsy)
MISSING == 0
\* get_messages rejects limit > 100
MaxFetch == 100
\* AsyncIterator.get_limit never asks for more than 100 objects
PageSize == 100
\* purge drains to_delete in batches of min(100, len(to_delete))
MaxBatch == 100
\* message.id bit position of the timestamp
TimestampShift == 22
\* 14 days in seconds
FourteenDays == 1209600

ClientUser == "bot"
LOADING == "LOADING"

\* --------------------------------------------------------------- sequences
Min(a, b) == IF a < b THEN a ELSE b
Max(a, b) == IF a > b THEN a ELSE b

Pow2(n) == 2 ^ n

Reverse(s) == [i \in 1..Len(s) |-> s[Len(s) + 1 - i]]

Ids(s) == [i \in 1..Len(s) |-> s[i].id]

Range(s) == {s[i] : i \in 1..Len(s)}

IsAscending(ids) == \A i \in 1..(Len(ids) - 1) : ids[i] < ids[i + 1]
IsDescending(ids) == \A i \in 1..(Len(ids) - 1) : ids[i] > ids[i + 1]

\* list.sort(key=lambda x: x.id)
IdLess(a, b) == a.id < b.id
SortById(s) == SortSeq(s, IdLess)

\* list.sort(key=lambda x: x.id, reverse=True)
IdGreater(a, b) == a.id > b.id
SortByIdRev(s) == SortSeq(s, IdGreater)

\* ------------------------------------------------------------------ server
\* The channel as the server holds it: messages in ascending id order.
\* The messages the server selects for one request, in ascending id order:
\* the `limit` nearest to the cursor on the cursor's side, the newest `limit`
\* when no cursor is given, and `limit` messages centred on `around`.
ServerSelect(chan, limit, around, before, after) ==
    LET n == Len(chan)
        below(c) == Cardinality({i \in 1..n : chan[i].id < c})
        upto(c) == Cardinality({i \in 1..n : chan[i].id <= c})
    IN  IF around # MISSING
        THEN LET nb == below(around)
                 h == limit \div 2
             IN  SubSeq(chan, Max(1, nb - h + 1), Min(n, nb + (limit - h)))
        ELSE IF before # MISSING
        THEN LET nb == below(before) IN SubSeq(chan, Max(1, nb - limit + 1), nb)
        ELSE IF after # MISSING
        THEN LET na == upto(after) IN SubSeq(chan, na + 1, Min(n, na + limit))
        ELSE SubSeq(chan, Max(1, n - limit + 1), n)

Orders == {"desc", "asc", "mixed"}

\* The order the records come back in is the server's choice.
ServerOrder(page, order) ==
    IF order = "asc" THEN page
    ELSE IF order = "desc" THEN Reverse(page)
    ELSE IF page = <<>> THEN page
    ELSE LET d == Reverse(page) IN Tail(d) \o <<Head(d)>>

\* http.get_channel_messages(channel_id, limit, around, before, after)
get_channel_messages(chan, limit, around, before, after, order) ==
    ServerOrder(ServerSelect(chan, limit, around, before, after), order)

\* cache.place_message_data(raw): the Message object of a raw record
place_message_data(data) ==
    [id |-> data.id, author |-> data.author, flags |-> data.flags]

\* One entry of the log of requests sent to the HTTP client.
GetCall(limit, around, before, after, n, ok) ==
    [op |-> "get_channel_messages", limit |-> limit, around |-> around,
     before |-> before, after |-> after, n |-> n, ids |-> <<>>, ok |-> ok]

DeleteCall(op, ids, ok) ==
    [op |-> op, limit |-> MISSING, around |-> MISSING, before |-> MISSING,
     after |-> MISSING, n |-> Len(ids), ids |-> ids, ok |-> ok]

\* ------------------------------------------------------------ get_messages
\* return [self._client.cache.place_message_data(message_data) for ...]
get_messages_return(limit, around, before, after, messages_data) ==
    [raised |-> "",
     messages |-> [i \in 1..Len(messages_data) |-> place_message_data(messages_data[i])],
     calls |-> <<GetCall(limit, around, before, after, Len(messages_data), TRUE)>>]

\* mutant: the limit is not checked
get_messages_unchecked(chan, limit, around, before, after, order, ok) ==
    IF ~ok
    THEN [raised |-> "HTTPException", messages |-> <<>>,
          calls |-> <<GetCall(limit, around, before, after, 0, FALSE)>>]
    ELSE get_messages_return(limit, around, before, after,
            get_channel_messages(chan, limit, around, before, after, order))

\* MessageableMixin.get_messages(limit, around, before, after); `ok` is
\* whether the HTTP request succeeds.
get_messages(chan, limit, around, before, after, order, ok) ==
    IF limit > MaxFetch
    THEN [raised |-> "ValueError", messages |-> <<>>, calls |-> <<>>]
    ELSE IF ~ok
    THEN [raised |-> "HTTPException", messages |-> <<>>,
          calls |-> <<GetCall(limit, around, before, after, 0, FALSE)>>]
    ELSE get_messages_return(limit, around, before, after,
            get_channel_messages(chan, limit, around, before, after, order))

\* ----------------------------------------------------------- AsyncIterator
\* mutant: the limit given to the iterator is dropped
NewHistory_nolimit(limit, before, after, around) ==
    [before |-> before, after |-> after, around |-> around,
     limit |-> MISSING, last |-> MISSING, queue |-> <<>>, retrieved |-> 0]

\* The iterator object: the ChannelHistory fields before/after/around and
\* the AsyncIterator fields _limit, last, _queue and the number of
\* _retrieved_objects.
NewHistory(limit, before, after, around) ==
    [before |-> before, after |-> after, around |-> around,
     limit |-> limit, last |-> MISSING, queue |-> <<>>, retrieved |-> 0]

\* AsyncIterator._continue
continue(self) ==
    IF self.limit = MISSING THEN TRUE ELSE ~(self.retrieved >= self.limit)

\* AsyncIterator.get_limit
get_limit(self) ==
    IF self.limit # MISSING THEN Min(self.limit - self.retrieved, PageSize) ELSE PageSize

\* ------------------------------------------------------ ChannelHistory.fetch
\* mutant: the page size does not take off what was retrieved already
fetch_limit_total(self) ==
    IF self.limit # MISSING THEN Min(self.limit, PageSize) ELSE PageSize

\* mutant: the page size is not taken from get_limit
fetch_limit_max(self) == PageSize

\* limit=self.get_limit in each of the three get_messages calls
fetch_limit(self) == get_limit(self)

\* mutant: the page is left in the order the server sent it
fetch_unsorted(messages) == messages

\* messages.sort(key=lambda x: x.id)
fetch_sort_after(messages) == SortById(messages)

\* messages.sort(key=lambda x: x.id, reverse=True)
fetch_sort_before(messages) == SortByIdRev(messages)

\* mutant: the limit is left as it was
fetch_around_nostop(self) == self

\* self._limit = 1  # stops history from getting more messages
fetch_around_stop(self) == [self EXCEPT !.limit = 1]

\* mutant: the cursor goes back to the constructor's before value on every fetch
fetch_before_reset(self) == [self EXCEPT !.last = self.before]

\* mutant: the cursor goes back to the constructor's after value on every fetch
fetch_after_reset(self) == [self EXCEPT !.last = self.after]

\* if not self.last: self.last = namedtuple("temp", "id"); self.last.id = self.after
fetch_after_last(self) ==
    IF self.last = MISSING THEN [self EXCEPT !.last = self.after] ELSE self

\* if self.before and not self.last: ... self.last.id = self.before
fetch_before_last(self) ==
    IF self.before # MISSING /\ self.last = MISSING
    THEN [self EXCEPT !.last = self.before] ELSE self

\* mutant: an empty page makes fetch raise
fetch_return_empty_raises(self, r, messages) ==
    [self |-> self,
     raised |-> IF r.raised = "" /\ messages = <<>> THEN "QueueEmpty" ELSE r.raised,
     calls |-> r.calls, raw |-> Ids(r.messages), messages |-> messages]

\* what fetch leaves behind: the iterator, the exception raised if any, the
\* requests made, the records as get_messages returned them and the list
\* fetch returns
fetch_return(self, r, messages) ==
    [self |-> self, raised |-> r.raised, calls |-> r.calls,
     raw |-> Ids(r.messages), messages |-> messages]

\* the after branch, from the get_messages call on
fetch_after(self, r) == fetch_return(self, r, fetch_sort_after(r.messages))

\* the around branch, from the get_messages call on
fetch_around(self, r) ==
    fetch_return(IF r.raised = "" THEN fetch_around_stop(self) ELSE self, r, r.messages)

\* the before (default) branch, from the get_messages call on
fetch_before(self, r) == fetch_return(self, r, fetch_sort_before(r.messages))

\* mutant: every request carries the constructor's after value
fetch_after_get_first(self, chan, order, ok) ==
    fetch_after(self, get_messages(chan, fetch_limit(self), MISSING, MISSING,
                                   self.after, order, ok))

\* get_messages(limit=self.get_limit, after=self.last.id)
fetch_after_get(self, chan, order, ok) ==
    fetch_after(self, get_messages(chan, fetch_limit(self), MISSING, MISSING,
                                   self.last, order, ok))

\* get_messages(limit=self.get_limit, around=self.around)
fetch_around_get(self, chan, order, ok) ==
    fetch_around(self, get_messages(chan, fetch_limit(self), self.around, MISSING,
                                    MISSING, order, ok))

\* mutant: every request carries the constructor's before value
fetch_before_get_first(self, chan, order, ok) ==
    fetch_before(self, get_messages(chan, fetch_limit(self), MISSING, self.before,
                                    MISSING, order, ok))

\* get_messages(limit=self.get_limit, before=self.last.id)
fetch_before_get(self, chan, order, ok) ==
    fetch_before(self, get_messages(chan, fetch_limit(self), MISSING, self.last,
                                    MISSING, order, ok))

\* mutant: the branches are tried in the order before, around, after
fetch_before_first(self, chan, order, ok) ==
    IF self.before # MISSING THEN fetch_before_get(fetch_before_last(self), chan, order, ok)
    ELSE IF self.around # MISSING THEN fetch_around_get(self, chan, order, ok)
    ELSE IF self.after # MISSING THEN fetch_after_get(fetch_after_last(self), chan, order, ok)
    ELSE fetch_before_get(fetch_before_last(self), chan, order, ok)

\* if self.after: ... elif self.around: ... else: ...
fetch(self, chan, order, ok) ==
    IF self.after # MISSING THEN fetch_after_get(fetch_after_last(self), chan, order, ok)
    ELSE IF self.around # MISSING THEN fetch_around_get(self, chan, order, ok)
    ELSE fetch_before_get(fetch_before_last(self), chan, order, ok)

\* ------------------------------------------------- AsyncIterator.__anext__
NoMessage == [id |-> MISSING, author |-> "", flags |-> {}]

\* whether the next __anext__ calls fetch
WillFetch(self) == self.queue = <<>> /\ continue(self)

\* the page of the fetch a step made: the ids as the server sent them and
\* as fetch returned them
NoPage == [fetched |-> FALSE, raw |-> <<>>, ids |-> <<>>]

\* _get_items without a fetch
NoFetch(self) ==
    [self |-> self, raised |-> "", calls |-> <<>>, raw |-> <<>>, messages |-> <<>>]

\* self.last = self._queue.get_nowait(); the object joins _retrieved_objects
anext_get(self, calls_, pg) ==
    IF self.queue = <<>>
    THEN [self |-> self, status |-> "stop", item |-> NoMessage,
          calls |-> calls_, page |-> pg, raised |-> ""]
    ELSE [self |-> [self EXCEPT !.last = Head(self.queue).id,
                                !.queue = Tail(self.queue),
                                !.retrieved = @ + 1],
          status |-> "item", item |-> Head(self.queue),
          calls |-> calls_, page |-> pg, raised |-> ""]

\* __anext__ once _get_items has run: f is what the fetch left behind
anext_fetched(fetched, f) ==
    IF f.raised # ""
    THEN [self |-> f.self, status |-> "raise", item |-> NoMessage,
          calls |-> f.calls, page |-> NoPage, raised |-> f.raised]
    ELSE anext_get([f.self EXCEPT !.queue = @ \o f.messages], f.calls,
                   IF fetched
                   THEN [fetched |-> TRUE, raw |-> f.raw, ids |-> Ids(f.messages)]
                   ELSE NoPage)

\* __anext__: when the queue is empty _get_items fetches (or raises
\* QueueEmpty when _continue is false); then the head of the queue becomes
\* self.last and is returned; an empty queue ends the iteration.
anext(self, chan, order, ok) ==
    anext_fetched(WillFetch(self),
                  IF WillFetch(self) THEN fetch(self, chan, order, ok) ELSE NoFetch(self))

\* -------------------------------------------------------------------- purge
Predicates == {"MISSING", "is_userX"}

\* mutant: every predicate accepts every message
predicate_all(p, message) == TRUE

\* predicate(message); purge replaces a MISSING predicate by accept-all
predicate(p, message) ==
    IF p = "MISSING" THEN TRUE ELSE message.author = "userX"

\* int(x) of a number num/2: truncation toward zero
IntOfHalves(num) == IF num >= 0 THEN num \div 2 ELSE -((-num) \div 2)

\* mutant: the cutoff timestamp is not shifted into a snowflake
fourteen_days_ago_unshifted(t) ==
    IntOfHalves(2 * (t.ms - FourteenDays * 1000) + t.half)

\* fourteen_days_ago = int((time.time() - 1209600) * 1000.0 - DISCORD_EPOCH) << 22
\* with t the reading of time.time(), as [ms, half]: ms + half/2 milliseconds
\* since DISCORD_EPOCH
fourteen_days_ago(t) ==
    IntOfHalves(2 * (t.ms - FourteenDays * 1000) + t.half) * Pow2(TimestampShift)

\* mutant: deletion_limit = 0 is a limit like any other
purge_full_zero(to_del, deletion_limit) == Len(to_del) = deletion_limit

\* mutant: the accumulator is full one id later
purge_full_late(to_del, deletion_limit) ==
    deletion_limit # 0 /\ Len(to_del) > deletion_limit

\* deletion_limit != 0 and len(to_delete) == deletion_limit
purge_full(to_del, deletion_limit) ==
    deletion_limit # 0 /\ Len(to_del) = deletion_limit

\* mutant: the author is not looked at
purge_any_loading(message) == LOADING \in message.flags

\* mutant: the author test is inverted
purge_other_loading(message) ==
    message.author # ClientUser /\ LOADING \in message.flags

\* message.author.id == self._client.user.id and MessageFlags.LOADING in message.flags
purge_own_loading(message) ==
    message.author = ClientUser /\ LOADING \in message.flags

\* mutant: no message is too old
purge_too_old_never(message, cutoff) == FALSE

\* message.id < fourteen_days_ago
purge_too_old(message, cutoff) == message.id < cutoff

\* the body of the async for loop for one message: the new to_delete and
\* whether the loop breaks
purge_body(a, t, to_del, message) ==
    IF purge_full(to_del, a.deletion_limit)
    THEN [to_delete |-> to_del, break |-> TRUE]
    ELSE IF ~predicate(a.predicate, message)
    THEN [to_delete |-> to_del, break |-> FALSE]
    ELSE IF a.avoid_loading_msg /\ purge_own_loading(message)
    THEN [to_delete |-> to_del, break |-> FALSE]
    ELSE IF purge_too_old(message, fourteen_days_ago(t))
    THEN [to_delete |-> to_del, break |-> FALSE]
    ELSE [to_delete |-> Append(to_del, message.id), break |-> FALSE]

\* mutant: the count is taken once the accumulator has been drained
purge_count_drained(to_del) == Len(<<>>)

\* count = len(to_delete)
purge_count(to_del) == Len(to_del)

\* mutant: the whole accumulator goes into one batch
purge_batch_size_all(to_del) == Len(to_del)

\* mutant: the batch is one id too large
purge_batch_size_over(to_del) == Min(MaxBatch + 1, Len(to_del))

\* min(100, len(to_delete))
purge_batch_size(to_del) == Min(MaxBatch, Len(to_del))

\* mutant: the last id popped stays in the accumulator
purge_batch_keep(to_del) ==
    LET k == purge_batch_size(to_del)
        n == Len(to_del)
    IN  [iteration |-> [i \in 1..k |-> to_del[n + 1 - i]],
         to_delete |-> SubSeq(to_del, 1, Min(n - k + 1, n - 1))]

\* iteration = [to_delete.pop() for i in range(min(100, len(to_delete)))]
purge_batch(to_del) ==
    LET k == purge_batch_size(to_del)
        n == Len(to_del)
    IN  [iteration |-> [i \in 1..k |-> to_del[n + 1 - i]],
         to_delete |-> SubSeq(to_del, 1, n - k)]

\* mutant: a single id goes through the bulk request as well
delete_messages_bulk(message_ids, ok) ==
    DeleteCall("bulk_delete_messages", message_ids, ok)

\* MessageableMixin.delete_messages / delete_message: the HTTP request made
delete_messages(message_ids, ok) ==
    IF Len(message_ids) = 1
    THEN DeleteCall("delete_message", <<message_ids[1]>>, ok)
    ELSE DeleteCall("bulk_delete_messages", message_ids, ok)

\* the server's channel after a successful delete request
ServerDelete(chan, ids) ==
    LET gone == Range(ids)
        Kept(m) == m.id \notin gone
    IN  SelectSeq(chan, Kept)

\* ------------------------------------------------------------------- state
VARIABLES
    channel,    \* the server's messages of the channel, ascending by id
    now,        \* the reading of time.time() at the start of purge
    args,       \* the arguments of the running history(...) or purge(...)
    hist,       \* the ChannelHistory object
    pc,         \* "iterate" | "scan" | "delete" | "call" | "done" | "raised"
    to_delete,  \* purge's accumulator
    count,      \* purge's return value (once pc = "done")
    calls,      \* the requests sent to the HTTP client, in order
    yielded,    \* the messages the iterator has handed to its consumer
    page,       \* the page fetched by the step just taken, if it fetched
    selected,   \* the ids purge has accumulated (to_delete before draining)
    cache,      \* the ids of the records placed in the cache
    returned,   \* the list a direct get_messages call returned
    raised,     \* the exception that ended the operation, "" if none
    other,      \* two invocations running interleaved on the channel
    changes     \* how often the channel was changed by others meanwhile

vars == <<channel, now, args, hist, pc, to_delete, count, calls, yielded, page,
          selected, cache, returned, raised, other, changes>>

\* ------------------------------------------------------------------ inputs
\* no second invocation
NoOther == [inst |-> <<>>, alone |-> <<>>]

Snowflake(ts, low) == ts * Pow2(TimestampShift) + low

\* author and flags of the k-th message of a channel of pattern p
Combos ==
    << [author |-> "userX", flags |-> {}],
       [author |-> "bot", flags |-> {LOADING}],
       [author |-> "userY", flags |-> {}],
       [author |-> "userX", flags |-> {LOADING}],
       [author |-> "bot", flags |-> {}],
       [author |-> "userY", flags |-> {LOADING}] >>

Patterns == 0..2

\* A channel of n messages: ids ascend with time, the timestamps 1..MaxTs
\* each cover a stretch of the channel; pattern 0 has plain user messages
\* only, patterns 1 and 2 cycle through the author/flag combinations.
MkChannel(n, p) ==
    [k \in 1..n |->
        LET c == IF p = 0 THEN Combos[1] ELSE Combos[((k + p - 2) % 6) + 1]
        IN  [id |-> Snowflake(1 + ((k - 1) * MaxTs) \div n, k),
             author |-> c.author, flags |-> c.flags]]

SmallSizes == 0..3
LargeSizes == {PageSize, PageSize + 1, MaxMsgs}

Limits == {0, 1, 100, 101, 150}

BeforeCursor == Snowflake(MaxTs, 0)
AfterCursor == Snowflake(2, 0)
AroundCursor == Snowflake(2, 2)

\* <<before, after, around>> as given to history(...) / purge(...)
Cursors ==
    { <<MISSING, MISSING, MISSING>>, <<BeforeCursor, MISSING, MISSING>>,
      <<MISSING, AfterCursor, MISSING>>, <<MISSING, MISSING, AroundCursor>>,
      <<BeforeCursor, AfterCursor, AroundCursor>>,
      <<BeforeCursor, MISSING, AroundCursor>> }

DeletionLimits == {0, 1, 2, 20}

\* readings of the clock: the cutoff falls before every message, inside the
\* channel (with and without a sub-millisecond part), and after every message
Time(c, h) == [ms |-> FourteenDays * 1000 + c, half |-> h]
Times == {Time(0, 0), Time(2, 0), Time(2, 1), Time(MaxTs + 1, 0)}

\* <<pattern, predicate, avoid_loading_msg, clock>> of the purges explored
\* on the large channels; the small channels take every combination
LargeProfiles ==
    { <<0, "MISSING", TRUE, Time(0, 0)>>,
      <<1, "MISSING", TRUE, Time(2, 1)>>,
      <<1, "is_userX", FALSE, Time(2, 0)>>,
      <<2, "MISSING", FALSE, Time(0, 0)>>,
      <<0, "MISSING", TRUE, Time(MaxTs + 1, 0)>> }

Init ==
    \E n \in SmallSizes \cup LargeSizes, p \in Patterns, c \in Cursors,
       lim \in Limits, op \in {"history", "purge", "get_messages"} :
      \E dl \in IF op = "purge" THEN DeletionLimits ELSE {50},
         pr \in IF op = "purge" THEN Predicates ELSE {"MISSING"},
         av \in IF op = "purge" THEN BOOLEAN ELSE {TRUE},
         t \in IF op = "purge" THEN Times ELSE {Time(0, 0)} :
        /\ op # "purge" => p = 0
        /\ (op = "purge" /\ n \in LargeSizes) => <<p, pr, av, t>> \in LargeProfiles
        /\ channel = MkChannel(n, p)
        /\ now = t
        /\ args = [op |-> op, limit |-> lim, before |-> c[1], after |-> c[2],
                   around |-> c[3], deletion_limit |-> dl, predicate |-> pr,
                   avoid_loading_msg |-> av]
        /\ hist = NewHistory(lim, c[1], c[2], c[3])
        /\ pc = IF op = "purge" THEN "scan"
                ELSE IF op = "history" THEN "iterate" ELSE "call"
        /\ to_delete = <<>>
        /\ count = 0
        /\ calls = <<>>
        /\ yielded = <<>>
        /\ page = NoPage
        /\ selected = <<>>
        /\ cache = {}
        /\ returned = <<>>
        /\ raised = ""
        /\ other = NoOther
        /\ changes = 0

\* ----------------------------------------------------------------- actions
\* the choices the environment makes when __anext__ fetches
FetchOrders(self) == IF WillFetch(self) THEN Orders ELSE {"desc"}
FetchOks(self) == IF WillFetch(self) THEN BOOLEAN ELSE {TRUE}

\* async for message in channel.history(...): r is what __anext__ returned
history_step(r) ==
    /\ hist' = r.self
    /\ calls' = calls \o r.calls
    /\ page' = r.page
    /\ yielded' = IF r.status = "item" THEN Append(yielded, r.item) ELSE yielded
    /\ pc' = IF r.status = "item" THEN "iterate"
             ELSE IF r.status = "stop" THEN "done" ELSE "raised"
    /\ cache' = cache \cup Range(r.page.raw)
    /\ raised' = r.raised
    /\ UNCHANGED <<channel, now, args, to_delete, count, selected, returned, other, changes>>

\* async for message in channel.history(...): one __anext__
history_next ==
    /\ pc = "iterate"
    /\ \E order \in FetchOrders(hist), ok \in FetchOks(hist) :
         history_step(anext(hist, channel, order, ok))

\* mutant: a failed fetch ends the loop like the end of the sequence
purge_step_swallow(r, b) ==
    /\ hist' = r.self
    /\ calls' = calls \o r.calls
    /\ page' = r.page
    /\ yielded' = IF r.status = "item" THEN Append(yielded, r.item) ELSE yielded
    /\ to_delete' = b.to_delete
    /\ selected' = b.to_delete
    /\ count' = IF b.break \/ r.status = "raise" THEN purge_count(to_delete) ELSE count
    /\ pc' = IF ~b.break /\ r.status # "raise" THEN "scan"
             ELSE IF to_delete = <<>> THEN "done" ELSE "delete"
    /\ cache' = cache \cup Range(r.page.raw)
    /\ raised' = ""
    /\ UNCHANGED <<channel, now, args, returned, other, changes>>

\* purge: r is what __anext__ returned, b what the loop body made of it
purge_step(r, b) ==
    /\ hist' = r.self
    /\ calls' = calls \o r.calls
    /\ page' = r.page
    /\ yielded' = IF r.status = "item" THEN Append(yielded, r.item) ELSE yielded
    /\ to_delete' = b.to_delete
    /\ selected' = b.to_delete
    /\ count' = IF b.break THEN purge_count(to_delete) ELSE count
    /\ pc' = IF r.status = "raise" THEN "raised"
             ELSE IF ~b.break THEN "scan"
             ELSE IF to_delete = <<>> THEN "done" ELSE "delete"
    /\ cache' = cache \cup Range(r.page.raw)
    /\ raised' = r.raised
    /\ UNCHANGED <<channel, now, args, returned, other, changes>>

\* the loop body for the item __anext__ returned; the end of the iteration
\* ends the loop
purge_round(r) ==
    purge_step(r, IF r.status = "item" THEN purge_body(args, now, to_delete, r.item)
                  ELSE [to_delete |-> to_delete, break |-> r.status = "stop"])

\* purge: one round of `async for message in self.history(...)` with the
\* loop body; when the loop ends count = len(to_delete) is taken
purge_scan ==
    /\ pc = "scan"
    /\ \E order \in FetchOrders(hist), ok \in FetchOks(hist) :
         purge_round(anext(hist, channel, order, ok))

\* mutant: a failed delete request is swallowed and the loop goes on
purge_delete_step_on(b, call) ==
    /\ to_delete' = b.to_delete
    /\ page' = NoPage
    /\ calls' = Append(calls, call)
    /\ channel' = IF call.ok THEN ServerDelete(channel, b.iteration) ELSE channel
    /\ pc' = IF b.to_delete = <<>> THEN "done" ELSE "delete"
    /\ raised' = ""
    /\ UNCHANGED <<now, args, hist, count, yielded, selected, cache, returned, other, changes>>

\* the batch popped and the request made for it
purge_delete_step(b, call) ==
    /\ to_delete' = b.to_delete
    /\ page' = NoPage
    /\ calls' = Append(calls, call)
    /\ channel' = IF call.ok THEN ServerDelete(channel, b.iteration) ELSE channel
    /\ pc' = IF ~call.ok THEN "raised"
             ELSE IF b.to_delete = <<>> THEN "done" ELSE "delete"
    /\ raised' = IF call.ok THEN "" ELSE "HTTPException"
    /\ UNCHANGED <<now, args, hist, count, yielded, selected, cache, returned, other, changes>>

purge_delete_batch(b, ok) == purge_delete_step(b, delete_messages(b.iteration, ok))

\* purge: one round of `while len(to_delete)`: pop a batch and delete it
purge_delete ==
    /\ pc = "delete"
    /\ to_delete # <<>>
    /\ \E ok \in BOOLEAN : purge_delete_batch(purge_batch(to_delete), ok)

\* await channel.get_messages(...): r is what the call left behind
get_messages_step(r) ==
    /\ calls' = calls \o r.calls
    /\ cache' = cache \cup Range(Ids(r.messages))
    /\ returned' = r.messages
    /\ raised' = r.raised
    /\ pc' = IF r.raised = "" THEN "done" ELSE "raised"
    /\ UNCHANGED <<channel, now, args, hist, to_delete, count, yielded, page,
                   selected, other, changes>>

\* a direct call of get_messages with the arguments of args
get_messages_call ==
    /\ pc = "call"
    /\ \E order \in Orders, ok \in BOOLEAN :
         get_messages_step(get_messages(channel, args.limit, args.around,
                                        args.before, args.after, order, ok))

Next == history_next \/ purge_scan \/ purge_delete \/ get_messages_call

Spec == Init /\ [][Next]_vars

\* ------------------------------------------- two interleaved invocations
\* One invocation of history(...) or of purge(...) up to the end of its loop,
\* with the objects it owns: the ChannelHistory made by history(...), the
\* list to_delete and count of purge, and what the invocation did.
NewInstance(a) ==
    [args |-> a, hist |-> NewHistory(a.limit, a.before, a.after, a.around),
     pc |-> IF a.op = "purge" THEN "scan" ELSE "iterate",
     to_delete |-> <<>>, count |-> 0, calls |-> <<>>, yielded |-> <<>>,
     raised |-> ""]

\* mutant: the cursor is kept in one place for every iterator of the channel
shared_cursor(self, peer) == [self EXCEPT !.last = peer.last]

\* self.last, self._queue and the other fields fetch and __anext__ work on
\* are attributes of the iterator object; the object of the other
\* invocation (peer) is a different one
own_cursor(self, peer) == self

\* the loop body of the invocation for what __anext__ returned
instance_body(x, t, r) ==
    IF x.args.op = "purge" /\ r.status = "item"
    THEN purge_body(x.args, t, x.to_delete, r.item)
    ELSE [to_delete |-> x.to_delete, break |-> r.status = "stop"]

\* the invocation after one round of its async for loop
instance_step(x, r, b) ==
    [x EXCEPT !.hist = r.self,
              !.calls = @ \o r.calls,
              !.yielded = IF r.status = "item" THEN Append(@, r.item) ELSE @,
              !.to_delete = b.to_delete,
              !.count = IF b.break THEN purge_count(x.to_delete) ELSE @,
              !.raised = r.raised,
              !.pc = IF r.status = "raise" THEN "raised"
                     ELSE IF ~b.break THEN @
                     ELSE IF x.to_delete = <<>> THEN "done" ELSE "delete"]

instance_round(x, t, r) == instance_step(x, r, instance_body(x, t, r))

\* one __anext__ of the invocation x and the loop body, peer being the other
\* invocation on the channel
instance_next(x, peer, chan, t, order, ok) ==
    instance_round(x, t, anext(own_cursor(x.hist, peer.hist), chan, order, ok))

\* the arguments of the interleaved invocations
TwoCursors ==
    { <<MISSING, MISSING, MISSING>>, <<MISSING, AfterCursor, MISSING>>,
      <<MISSING, MISSING, AroundCursor>> }

TwoArgs(small) ==
    { [op |-> op, limit |-> lim, before |-> c[1], after |-> c[2], around |-> c[3],
       deletion_limit |-> dl, predicate |-> "MISSING", avoid_loading_msg |-> TRUE] :
      op \in {"history", "purge"}, lim \in IF small THEN {0, 1} ELSE {1},
      c \in TwoCursors, dl \in {1} }

\* two invocations on one channel; on the channel of more than a page the
\* second one takes a single message
InitTwo ==
    \E n \in SmallSizes \cup {PageSize + 1} :
      \E a \in TwoArgs(TRUE), b \in TwoArgs(n \in SmallSizes) :
        /\ (n \notin SmallSizes) => (a.limit = 0 /\ a.around = MISSING)
        /\ channel = MkChannel(n, 0)
        /\ now = Time(0, 0)
        /\ other = [inst |-> <<NewInstance(a), NewInstance(b)>>,
                    alone |-> <<NewInstance(a), NewInstance(b)>>]
        /\ args = a
        /\ hist = NewHistory(a.limit, a.before, a.after, a.around)
        /\ pc = "two"
        /\ to_delete = <<>>
        /\ count = 0
        /\ calls = <<>>
        /\ yielded = <<>>
        /\ page = NoPage
        /\ selected = <<>>
        /\ cache = {}
        /\ returned = <<>>
        /\ raised = ""
        /\ changes = 0

\* invocation i takes one round of its loop, the other one being suspended;
\* the copy of i that runs alone takes the same round with the same answer
\* of the server
two_round(i, order, ok) ==
    /\ other' = [inst |-> [other.inst EXCEPT ![i] =
                     instance_next(other.inst[i], other.inst[3 - i], channel, now,
                                   order, ok)],
                 alone |-> [other.alone EXCEPT ![i] =
                     instance_next(other.alone[i], other.alone[i], channel, now,
                                   order, ok)]]
    /\ UNCHANGED <<channel, now, args, hist, pc, to_delete, count, calls, yielded,
                   page, selected, cache, returned, raised, changes>>

two_step ==
    /\ pc = "two"
    /\ \E i \in 1..2 :
         /\ other.inst[i].pc \in {"iterate", "scan"}
         /\ \E order \in FetchOrders(other.inst[i].hist),
               ok \in FetchOks(other.inst[i].hist) : two_round(i, order, ok)

NextTwo == two_step

SpecTwo == InitTwo /\ [][NextTwo]_vars

\* ------------------------------------------ a channel changing meanwhile
\* messages other users may post while the iteration runs: one per
\* timestamp, later than the messages of that timestamp already there
NewMessages ==
    {[id |-> Snowflake(ts, MaxMsgs + 1), author |-> "userY", flags |-> {}] :
       ts \in 1..MaxTs}

\* the positions at which a message may disappear: the oldest, the newest
\* and the middle one
Removable(chan) == {1, (Len(chan) + 1) \div 2, Len(chan)} \ {0}

\* the changes happen between two fetches of the iterator
BetweenFetches ==
    /\ pc = "iterate" /\ calls # <<>> /\ WillFetch(hist)
    /\ changes < MaxChanges

\* somebody posts a message
message_added ==
    /\ BetweenFetches
    /\ \E m \in NewMessages :
         /\ m.id \notin Range(Ids(channel))
         /\ channel' = SortById(Append(channel, m))
    /\ changes' = changes + 1
    /\ UNCHANGED <<now, args, hist, pc, to_delete, count, calls, yielded, page,
                   selected, cache, returned, raised, other>>

\* somebody deletes a message
message_removed ==
    /\ BetweenFetches
    /\ \E k \in Removable(channel) :
         channel' = SubSeq(channel, 1, k - 1) \o SubSeq(channel, k + 1, Len(channel))
    /\ changes' = changes + 1
    /\ UNCHANGED <<now, args, hist, pc, to_delete, count, calls, yielded, page,
                   selected, cache, returned, raised, other>>

\* a before- or after-mode iteration over a channel of at most a page and
\* one message
InitChange ==
    /\ Init
    /\ args.op = "history"
    /\ hist.after # MISSING \/ hist.around = MISSING
    /\ Len(channel) <= PageSize + 1

NextChange == history_next \/ message_added \/ message_removed

SpecChange == InitChange /\ [][NextChange]_vars

\* ------------------------------------------------------- derived quantities
\* the pagination mode of the iterator: after over around over before
Mode == IF hist.after # MISSING THEN "after"
        ELSE IF hist.around # MISSING THEN "around" ELSE "before"

IsGet(c) == c.op = "get_channel_messages"
IsBulk(c) == c.op = "bulk_delete_messages"
IsSingle(c) == c.op = "delete_message"
IsDelete(c) == IsBulk(c) \/ IsSingle(c)

Gets == SelectSeq(calls, IsGet)
Deletes == SelectSeq(calls, IsDelete)
Bulks == SelectSeq(calls, IsBulk)
Singles == SelectSeq(calls, IsSingle)

\* every id passed to a delete request so far
DeletedIds == UNION {Range(Deletes[i].ids) : i \in 1..Len(Deletes)}

\* the number of ids over all delete requests
RECURSIVE SumN(_)
SumN(cs) == IF cs = <<>> THEN 0 ELSE Head(cs).n + SumN(Tail(cs))

CeilDiv(a, b) == (a + b - 1) \div b

\* the millisecond timestamp a snowflake id carries: id >> 22
TimestampOf(id) == id \div Pow2(TimestampShift)

\* the purge start time minus 14 days, in whole milliseconds since the epoch
CutoffMs == now.ms - FourteenDays * 1000

\* the filters of the purge loop, applied to one message
Qualifies(m) ==
    /\ predicate(args.predicate, m)
    /\ ~(args.avoid_loading_msg /\ m.author = ClientUser /\ LOADING \in m.flags)
    /\ TimestampOf(m.id) >= CutoffMs

NumQualifying == Cardinality({i \in 1..Len(yielded) : Qualifies(yielded[i])})

\* the ids of all delete requests so far, in the order they were passed
RECURSIVE ConcatIds(_)
ConcatIds(cs) == IF cs = <<>> THEN <<>> ELSE Head(cs).ids \o ConcatIds(Tail(cs))

\* the number of messages the first i fetches returned
FetchedUpTo(i) == SumN(SubSeq(Gets, 1, i))

\* the ids of the page the i-th fetch returned, as they were yielded
PageIds(i) == SubSeq(Ids(yielded), FetchedUpTo(i - 1) + 1, FetchedUpTo(i))

\* purge has left its async for loop
ScanEnded == args.op = "purge" /\ (pc \in {"delete", "done"} \/ Deletes # <<>>)

\* the messages of the channel on the cursor's side: later than `after` in
\* after mode, earlier than `before` (all of them without one) in before mode
OnCursorSide(m) ==
    IF Mode = "after" THEN m.id > args.after
    ELSE args.before = MISSING \/ m.id < args.before

CursorSide == {channel[i] : i \in {j \in 1..Len(channel) : OnCursorSide(channel[j])}}

\* -------------------------------------------------------------------- C1
\* C1: with limit > 0 the iterator never yields more than limit messages in
\* total, in every mode and for every channel (the server returning at most
\* the page size asked for).
C1_YieldsAtMostLimit ==
    args.limit > 0 => Len(yielded) <= args.limit

\* a limit above one page, met exactly on a channel that holds more
C1_Witness ==
    /\ args.limit = 150 /\ Len(yielded) = 150 /\ Len(channel) > 150
    /\ Len(Gets) = 2 /\ pc = "done" /\ args.op = "history"

\* -------------------------------------------------------------------- C2
\* C2: a message whose id timestamp (id >> 22) is earlier than the purge
\* start time minus 14 days is never passed to a delete request, whatever
\* predicate, deletion_limit and search_limit are; a message exactly at the
\* cutoff millisecond is still eligible: with deletion_limit = 0, the
\* accept-all predicate and avoid_loading_msg = false it is accumulated.
C2_OldNeverDeleted ==
    args.op = "purge" =>
      /\ \A id \in DeletedIds \cup Range(selected) : ~(TimestampOf(id) < CutoffMs)
      /\ (/\ args.deletion_limit = 0 /\ args.predicate = "MISSING"
          /\ ~args.avoid_loading_msg)
         => \A i \in 1..Len(yielded) :
              TimestampOf(yielded[i].id) = CutoffMs => yielded[i].id \in Range(selected)

\* a purge that ended having been handed messages older than the cutoff,
\* messages exactly at it, and having deleted some of the latter
C2_Witness ==
    /\ args.op = "purge" /\ pc = "done"
    /\ \E i \in 1..Len(yielded) : TimestampOf(yielded[i].id) < CutoffMs
    /\ \E id \in DeletedIds : TimestampOf(id) = CutoffMs
    /\ now.half = 1

\* -------------------------------------------------------------------- C3
\* C3 as stated: purge issues ceil(N/100) bulk-delete requests for N > 1
\* accumulated ids, each carrying at most 100 ids.
C3_Original ==
    (args.op = "purge" /\ pc = "done" /\ count > 1) =>
      /\ Len(Bulks) = CeilDiv(count, MaxBatch)
      /\ \A i \in 1..Len(Bulks) : Bulks[i].n <= MaxBatch

\* C3 amended: purge issues ceil(N/100) delete requests for N > 1
\* accumulated ids, each carrying at most 100 ids; they are bulk-delete
\* requests except for a trailing batch of one id (N mod 100 = 1), which is a
\* single-message delete, so that the bulk requests then number ceil(N/100) - 1.
C3_Amended ==
    (args.op = "purge" /\ pc = "done" /\ count > 1) =>
      /\ Len(Deletes) = CeilDiv(count, MaxBatch)
      /\ Len(Bulks) = IF count % MaxBatch = 1 THEN CeilDiv(count, MaxBatch) - 1
                      ELSE CeilDiv(count, MaxBatch)
      /\ \A i \in 1..Len(Deletes) : Deletes[i].n <= MaxBatch

\* 150 ids: two bulk requests of 100 and 50
C3_Witness ==
    /\ args.op = "purge" /\ pc = "done" /\ count = 150
    /\ Len(Bulks) = 2 /\ Bulks[1].n = 100 /\ Bulks[2].n = 50

\* -------------------------------------------------------------------- C4
\* C4: when exactly one message qualifies, purge issues exactly one
\* single-message delete for that id and no bulk-delete request.
C4_OneQualifies ==
    (args.op = "purge" /\ pc \in {"delete", "done", "raised"} /\ Len(selected) = 1) =>
      /\ Bulks = <<>>
      /\ \A i \in 1..Len(Deletes) : Deletes[i].ids = selected
      /\ Len(Deletes) <= 1
      /\ (pc = "done" => Len(Singles) = 1)
      /\ (pc = "delete" => Deletes = <<>>)

\* one qualifying message among several scanned, deleted on its own
C4_Witness ==
    /\ args.op = "purge" /\ pc = "done" /\ Len(selected) = 1 /\ Len(yielded) > 1
    /\ Len(Singles) = 1 /\ Singles[1].ids = selected

\* -------------------------------------------------------------------- C5
\* C5: every bulk-delete request of purge carries between 2 and 100 ids; a
\* batch of one id is a single-message delete.
C5_BulkSizes ==
    /\ \A i \in 1..Len(Bulks) : 2 <= Bulks[i].n /\ Bulks[i].n <= MaxBatch
    /\ \A i \in 1..Len(Singles) : Singles[i].n = 1

\* 101 ids: a bulk request of 100 followed by a single-message delete
C5_Witness ==
    /\ args.op = "purge" /\ pc = "done" /\ count = MaxBatch + 1
    /\ Len(Bulks) = 1 /\ Bulks[1].n = MaxBatch /\ Len(Singles) = 1
    /\ IsSingle(calls[Len(calls)])

\* -------------------------------------------------------------------- C6
\* C6: with deletion_limit > 0 purge accumulates at most deletion_limit ids:
\* the ids over all delete requests never exceed deletion_limit, and purge
\* returns min(deletion_limit, number of qualifying messages scanned).
C6_DeletionLimit ==
    (args.op = "purge" /\ args.deletion_limit > 0) =>
      /\ Len(selected) <= args.deletion_limit
      /\ SumN(Deletes) <= args.deletion_limit
      /\ pc = "done" => count = Min(args.deletion_limit, NumQualifying)

\* deletion_limit = 20 reached by a selective predicate with more than 20
\* matching messages in the search window
C6_Witness ==
    /\ args.op = "purge" /\ pc = "done" /\ args.deletion_limit = 20
    /\ args.predicate = "is_userX" /\ count = 20 /\ Len(yielded) > 20
    /\ SumN(Deletes) = 20

\* -------------------------------------------------------------------- C7
\* C7: with avoid_loading_msg = true a message by the bot's own account that
\* carries the LOADING flag is never accumulated and never passed to a delete
\* request, even when the predicate accepts it and it is younger than 14
\* days; what is accumulated or deleted are ids of messages the iterator
\* yielded.
C7_OwnLoadingKept ==
    (args.op = "purge" /\ args.avoid_loading_msg) =>
      /\ \A i \in 1..Len(yielded) :
           (yielded[i].author = ClientUser /\ LOADING \in yielded[i].flags)
             => yielded[i].id \notin DeletedIds \cup Range(selected)
      /\ \A id \in DeletedIds \cup Range(selected) :
           \E i \in 1..Len(yielded) : yielded[i].id = id

\* a finished purge that was handed a young loading message of the bot which
\* the predicate accepts, and that deleted other messages
C7_Witness ==
    /\ args.op = "purge" /\ args.avoid_loading_msg /\ pc = "done"
    /\ args.predicate = "MISSING" /\ DeletedIds # {}
    /\ \E i \in 1..Len(yielded) :
         /\ yielded[i].author = ClientUser /\ LOADING \in yielded[i].flags
         /\ TimestampOf(yielded[i].id) > CutoffMs

\* -------------------------------------------------------------------- C8
\* C8: every page fetch returns is sorted ascending by id in after mode and
\* descending by id in before (default) mode, whatever order the server sent
\* it in; it holds the messages the server sent, and the consumer gets them
\* in that order.
C8_PagesSorted ==
    (page.fetched /\ Mode \in {"after", "before"}) =>
      /\ Mode = "after" => IsAscending(page.ids)
      /\ Mode = "before" => IsDescending(page.ids)
      /\ Len(page.ids) = Len(page.raw)
      /\ Range(page.ids) = Range(page.raw)
      /\ page.ids # <<>> =>
           page.ids = <<yielded[Len(yielded)].id>> \o Ids(hist.queue)

\* an after-mode page of a hundred messages that the server sent newest first
C8_Witness ==
    /\ page.fetched /\ Mode = "after" /\ Len(page.ids) = PageSize
    /\ IsDescending(page.raw) /\ IsAscending(page.ids)

\* -------------------------------------------------------------------- C9
\* C9: in around mode the single page is sorted descending by id, whatever
\* order the server sent the records in.
C9_AroundSorted ==
    (page.fetched /\ Mode = "around") => IsDescending(page.ids)

\* ------------------------------------------------------------------- C10
\* C10: in around mode at most one page is fetched, whatever the limit (0
\* and limits above 100 included); at most that one page, of at most 100
\* messages, is yielded; every request carries the constructor's around value
\* and no other cursor, and the around anchor never changes.
C10_AroundOnePage ==
    (Mode = "around" /\ args.op \in {"history", "purge"}) =>
      /\ Len(Gets) <= 1
      /\ Len(yielded) <= SumN(Gets)
      /\ Len(yielded) <= PageSize
      /\ hist.around = args.around
      /\ \A i \in 1..Len(Gets) :
           /\ Gets[i].around = args.around
           /\ Gets[i].before = MISSING /\ Gets[i].after = MISSING

\* an unlimited around iteration over a channel of more than a page: one
\* fetch, a hundred messages, the end
C10_Witness ==
    /\ Mode = "around" /\ args.limit = 0 /\ pc = "done" /\ args.op = "history"
    /\ Len(yielded) = PageSize /\ Len(channel) > PageSize /\ Len(Gets) = 1

\* ------------------------------------------------------------------- C11
\* C11 as stated: the iterator terminates when the server returns fewer
\* messages than requested: after a page shorter than the requested page size
\* no further fetch is issued (so that pages of 100 and 40 take exactly two
\* fetches for limit = 0 as well as for a limit the channel cannot fill).
C11_Original ==
    Mode # "around" =>
      \A i \in 1..(Len(Gets) - 1) : ~(Gets[i].n < Gets[i].limit)

\* C11 amended: the iterator terminates when a fetch returns no message or
\* when limit messages have been retrieved; a page shorter than requested
\* does not end it. After a short page one more fetch is issued unless the
\* limit is met; on an unchanging channel that fetch returns nothing and is
\* the last. No fetch follows an empty page or a failed one. A two-page
\* channel takes two fetches only when the limit equals its size, and three,
\* the last one empty, for limit = 0 or a larger limit; every message
\* fetched is yielded.
C11_Amended ==
    Mode # "around" =>
      /\ \A i \in 1..(Len(Gets) - 1) :
           /\ Gets[i].ok /\ Gets[i].n > 0
           /\ Gets[i].n < Gets[i].limit =>
                (i + 1 = Len(Gets) /\ Gets[i + 1].n = 0)
      /\ (args.op = "history" /\ pc = "done") =>
           /\ Gets # <<>>
           /\ Len(yielded) = SumN(Gets)
           /\ \/ Gets[Len(Gets)].n = 0
              \/ args.limit > 0 /\ Len(yielded) = args.limit

\* an unlimited after-mode iteration over two pages, a full one and a short
\* one: the third fetch comes back empty and ends it
C11_Witness ==
    /\ args.op = "history" /\ Mode = "after" /\ args.limit = 0 /\ pc = "done"
    /\ Len(Gets) = 3 /\ Gets[1].n = PageSize
    /\ Gets[2].n > 0 /\ Gets[2].n < Gets[2].limit /\ Gets[3].n = 0
    /\ Len(yielded) = Gets[1].n + Gets[2].n

\* ------------------------------------------------------------------- C12
\* C12: with limit = 0 in before or after mode on a finite, unchanging
\* channel the iterator keeps fetching until a page comes back empty and then
\* ends: the fetches number one more than the pages the cursor's side
\* fills, only the last one is empty, and at the end every message on the
\* cursor's side has been yielded exactly once.
C12_Exhausts ==
    (args.op = "history" /\ args.limit = 0 /\ Mode # "around") =>
      /\ Len(Gets) <= CeilDiv(Cardinality(CursorSide), PageSize) + 1
      /\ \A i \in 1..(Len(Gets) - 1) : Gets[i].n > 0
      /\ Range(yielded) \subseteq CursorSide
      /\ Cardinality(Range(Ids(yielded))) = Len(yielded)
      /\ pc = "iterate" => (hist.queue # <<>> \/ Gets = <<>> \/ Gets[Len(Gets)].n > 0)
      /\ pc = "done" =>
           /\ Gets[Len(Gets)].n = 0 /\ Gets[Len(Gets)].ok
           /\ Range(yielded) = CursorSide
           /\ Len(Gets) = CeilDiv(Cardinality(CursorSide), PageSize) + 1

\* an unlimited default-mode iteration over a channel of more than two
\* pages, ended by the empty page that follows the short one
C12_Witness ==
    /\ args.op = "history" /\ args.limit = 0 /\ Mode = "before" /\ pc = "done"
    /\ Len(yielded) > 2 * PageSize /\ Len(yielded) = Len(channel)
    /\ Len(Gets) = 4 /\ Gets[4].n = 0

\* ------------------------------------------------------------------- C13
\* C13: across pages the ids handed to the consumer are strictly descending
\* in before (default) mode and strictly ascending in after mode, so that no
\* message is yielded twice (every page of the server holding only messages
\* strictly beyond the cursor it was asked with).
C13_Monotonic ==
    /\ Mode = "after" => IsAscending(Ids(yielded))
    /\ Mode = "before" => IsDescending(Ids(yielded))
    /\ Mode # "around" => Cardinality(Range(Ids(yielded))) = Len(yielded)

\* a before-mode iteration past the first page whose pages the server sent
\* oldest first
C13_Witness ==
    /\ Mode = "before" /\ args.before # MISSING /\ Len(Gets) >= 2
    /\ Len(yielded) > PageSize /\ page.fetched /\ Len(page.raw) > 1
    /\ IsAscending(page.raw) /\ Gets[2].before = yielded[PageSize].id

C15_ReturnsCount ==
    ScanEnded =>
      /\ count = Len(selected)
      /\ pc = "delete" => count = SumN(Deletes) + Len(to_delete)
      /\ pc = "done" =>
           /\ to_delete = <<>>
           /\ count = SumN(Deletes)
           /\ DeletedIds = Range(selected)

\* a purge that returned 101 after a batch of a hundred and a batch of one
C15_Witness ==
    /\ args.op = "purge" /\ pc = "done" /\ to_delete = <<>>
    /\ count = Len(selected) /\ count = MaxBatch + 1
    /\ Len(Deletes) = 2 /\ \A i \in 1..Len(Deletes) : Deletes[i].ok

\* ------------------------------------------------------------------- C16
\* C16: get_messages called with limit > 100 fails with ValueError before
\* any HTTP request and before any cache placement: no get_channel_messages
\* request is made and nothing is returned; no request ever asks for more
\* than 100 messages, and a limit of at most 100 is sent on.
C16_LimitChecked ==
    /\ \A i \in 1..Len(Gets) : Gets[i].limit <= MaxFetch
    /\ (args.op = "get_messages" /\ pc # "call") =>
         IF args.limit > MaxFetch
         THEN /\ pc = "raised" /\ raised = "ValueError"
              /\ calls = <<>> /\ cache = {} /\ returned = <<>>
         ELSE /\ Len(calls) = 1 /\ Len(Gets) = 1 /\ Gets[1].limit = args.limit
              /\ raised # "ValueError"
              /\ cache = Range(Ids(returned))

\* get_messages(limit=101) on a channel that holds 101 messages and more
C16_Witness ==
    /\ args.op = "get_messages" /\ args.limit = MaxFetch + 1
    /\ Len(channel) > MaxFetch /\ pc = "raised" /\ raised = "ValueError"
    /\ calls = <<>> /\ cache = {}

\* ------------------------------------------------------------------- C17
\* C17: if a delete request of purge fails, the failure reaches the caller
\* of purge as it is and no request is made after the failed one: no retry,
\* the remaining batches are dropped (their messages stay in the channel),
\* and the batches already deleted are not undone.
C17_DeleteFailure ==
    \A i \in 1..Len(calls) :
      IsDelete(calls[i]) =>
        IF calls[i].ok
        THEN Range(calls[i].ids) \cap Range(Ids(channel)) = {}
        ELSE /\ i = Len(calls)
             /\ pc = "raised" /\ raised = "HTTPException"
             /\ Range(calls[i].ids) \cup Range(to_delete) \subseteq Range(Ids(channel))
             /\ SumN(Deletes) + Len(to_delete) = count

\* 201 accumulated ids: the first batch deleted, the second request failed,
\* the third batch never sent
C17_Witness ==
    /\ args.op = "purge" /\ pc = "raised" /\ Len(Deletes) = 2
    /\ Deletes[1].ok /\ ~Deletes[2].ok /\ to_delete # <<>>
    /\ Len(channel) = count - Deletes[1].n

\* ------------------------------------------------------------------- C18
\* C18: when a page fetch returns no records the iteration ends normally:
\* the consumer (the async for of a caller, or purge's loop) sees the end of
\* the sequence after the messages fetched before, no error is raised, and
\* the iterator makes no further fetch.
C18_EmptyPageEnds ==
    args.op \in {"history", "purge"} =>
      \A i \in 1..Len(Gets) :
        (Gets[i].ok /\ Gets[i].n = 0) =>
          /\ i = Len(Gets)
          /\ hist.queue = <<>>
          /\ args.op = "history" => (pc = "done" /\ raised = "")
          /\ args.op = "history" => Len(yielded) = SumN(Gets)
          /\ args.op = "purge" =>
               /\ ScanEnded \/ pc = "done"
               /\ count = Len(selected)
               /\ raised # "" => (Deletes # <<>> /\ ~Deletes[Len(Deletes)].ok)

\* a purge whose loop was ended by the empty third page and that went on to
\* delete what it had accumulated
C18_Witness ==
    /\ args.op = "purge" /\ pc = "done" /\ raised = ""
    /\ Len(Gets) = 3 /\ Gets[3].ok /\ Gets[3].n = 0
    /\ Len(yielded) > PageSize /\ Deletes # <<>> /\ count = SumN(Deletes)

C20_StopsAtLimit ==
    [][(/\ args.op = "purge" /\ pc = "scan"
        /\ purge_full(to_delete, args.deletion_limit))
       => (yielded' = yielded /\ calls' = calls)]_vars

\* ------------------------------------------------------------------- C21
\* C21: the delete requests of one purge partition the accumulated ids:
\* every request carries at most 100 ids, all of them accumulated ones, no
\* id is passed twice (within a request or to two requests), and when purge
\* returns every accumulated id has been passed to exactly one request; the
\* batches are taken from the back of the accumulator.
C21_Partition ==
    args.op = "purge" =>
      /\ \A i \in 1..Len(Deletes) :
           /\ Deletes[i].n <= MaxBatch /\ Deletes[i].n >= 1
           /\ Range(Deletes[i].ids) \subseteq Range(selected)
      /\ Cardinality(DeletedIds) = SumN(Deletes)
      /\ ConcatIds(Deletes) \o Reverse(to_delete) = Reverse(selected)
         \/ Deletes = <<>>
      /\ pc = "done" =>
           /\ DeletedIds = Range(selected)
           /\ SumN(Deletes) = Len(selected)

\* 150 accumulated ids: a request of the last hundred, then one of the
\* first fifty
C21_Witness ==
    /\ args.op = "purge" /\ pc = "done" /\ Len(selected) = 150
    /\ Len(Deletes) = 2 /\ Deletes[1].n = 100 /\ Deletes[2].n = 50
    /\ Deletes[1].ids[1] = selected[150] /\ Deletes[2].ids[50] = selected[1]

\* ------------------------------------------------------------------- C22
\* C22: a message the predicate rejects is never accumulated nor passed to
\* a delete request, and it does not count toward deletion_limit: with
\* deletion_limit = d > 0 the accumulator holds the first d qualifying
\* messages of those scanned (all of them when fewer qualify), however many
\* rejected messages lie between them.
C22_RejectedSkipped ==
    args.op = "purge" =>
      /\ \A i \in 1..Len(yielded) :
           (args.predicate = "is_userX" /\ yielded[i].author # "userX")
             => yielded[i].id \notin DeletedIds \cup Range(selected)
      /\ args.deletion_limit > 0 =>
           /\ selected = SubSeq(Ids(SelectSeq(yielded, Qualifies)), 1,
                                Min(args.deletion_limit, NumQualifying))
           /\ (ScanEnded /\ NumQualifying >= args.deletion_limit)
                => count = args.deletion_limit

\* twenty matching messages deleted out of a scan that began with a
\* rejected message and saw more rejected than matching ones
C22_Witness ==
    /\ args.op = "purge" /\ pc = "done" /\ args.predicate = "is_userX"
    /\ args.deletion_limit = 20 /\ Len(selected) = 20
    /\ yielded[1].author # "userX"
    /\ Len(yielded) > 2 * Len(selected) /\ DeletedIds = Range(selected)

\* ------------------------------------------------------------------- C23
\* C23: with search_limit > 0 purge examines at most search_limit messages
\* in all, the skipped ones (rejected, loading, too old) included; what it
\* accumulates, passes to delete requests and returns never exceeds
\* search_limit, with deletion_limit = 0 as well.
C23_SearchLimit ==
    (args.op = "purge" /\ args.limit > 0) =>
      /\ Len(yielded) <= args.limit
      /\ SumN(Gets) <= args.limit
      /\ Len(selected) <= args.limit
      /\ count <= args.limit
      /\ SumN(Deletes) <= args.limit

\* a purge without deletion limit over a channel of more than search_limit
\* = 100 messages: a hundred examined, some skipped, the rest deleted
C23_Witness ==
    /\ args.op = "purge" /\ pc = "done" /\ args.deletion_limit = 0
    /\ args.limit = 100 /\ Len(channel) + count > args.limit
    /\ Len(yielded) = args.limit /\ count > 0 /\ count < args.limit
    /\ Len(Gets) = 1

\* ------------------------------------------------------------------- C24
\* C24: the first fetch carries the constructor's before or after value (no
\* cursor when neither is given); every later fetch carries, in before mode,
\* the minimum id of the previous page and, in after mode, the maximum id of
\* the previous page, so that the cursor strictly decreases (before) or
\* strictly increases (after) from fetch to fetch.
C24_CursorIsExtreme ==
    (Mode # "around" /\ args.op \in {"history", "purge"} /\ Gets # <<>>) =>
      /\ Mode = "before" => Gets[1].before = args.before
      /\ Mode = "after" => Gets[1].after = args.after
      /\ \A i \in 1..(Len(Gets) - 1) :
           LET ids == PageIds(i)
                c == IF Mode = "before" THEN Gets[i + 1].before ELSE Gets[i + 1].after
                p == IF Mode = "before" THEN Gets[i].before ELSE Gets[i].after
           IN  /\ Len(ids) = Gets[i].n /\ ids # <<>>
               /\ \E k \in 1..Len(ids) : ids[k] = c
               /\ Mode = "before" =>
                    /\ \A k \in 1..Len(ids) : c <= ids[k]
                    /\ p = MISSING \/ c < p
               /\ Mode = "after" =>
                    /\ \A k \in 1..Len(ids) : c >= ids[k]
                    /\ c > p

\* a default-mode iteration at its third fetch: no cursor, then the
\* smallest id of the first page, then the smallest id of the second
C24_Witness ==
    /\ Mode = "before" /\ args.before = MISSING /\ Len(Gets) = 3
    /\ Len(yielded) > 2 * PageSize
    /\ Gets[1].before = MISSING /\ Gets[2].before = yielded[PageSize].id
    /\ Gets[3].before = yielded[2 * PageSize].id
    /\ Gets[3].before < Gets[2].before /\ page.fetched

\* ------------------------------------------------------------------- C25
\* C25: every fetch of the iterator asks for min(100, limit - messages
\* already yielded) messages when limit > 0 and for 100 when limit = 0; the
\* size asked for is always between 1 and 100, so neither the iterator nor
\* purge ever meets the ValueError of get_messages.
C25_PageSize ==
    args.op \in {"history", "purge"} =>
      /\ raised # "ValueError"
      /\ \A i \in 1..Len(Gets) :
           /\ Gets[i].limit = IF args.limit > 0
                               THEN Min(MaxFetch, args.limit - FetchedUpTo(i - 1))
                               ELSE MaxFetch
           /\ 1 <= Gets[i].limit /\ Gets[i].limit <= MaxFetch

\* limit = 101: a request for a hundred messages, then a request for one
C25_Witness ==
    /\ args.op = "history" /\ args.limit = MaxFetch + 1 /\ pc = "done"
    /\ Len(Gets) = 2 /\ Gets[1].limit = MaxFetch /\ Gets[2].limit = 1
    /\ Gets[2].n = 1 /\ Len(yielded) = args.limit

\* ------------------------------------------------------------------- C26
\* C26: in one purge every fetch precedes every delete request: no delete
\* request is made while the loop is scanning, and when a page fetch fails
\* the error leaves purge with no delete request made and every message
\* still in the channel.
C26_FetchesFirst ==
    args.op = "purge" =>
      /\ calls = Gets \o Deletes
      /\ pc = "scan" => Deletes = <<>>
      /\ \A i \in 1..Len(Gets) :
           ~Gets[i].ok =>
             /\ pc = "raised" /\ raised = "HTTPException"
             /\ Deletes = <<>>
             /\ Range(selected) \subseteq Range(Ids(channel))

\* a purge that had accumulated a full page when the fetch of the second
\* page failed: nothing was deleted
C26_Witness ==
    /\ args.op = "purge" /\ pc = "raised" /\ Len(Gets) = 2
    /\ Gets[1].ok /\ ~Gets[2].ok /\ Len(to_delete) = PageSize
    /\ Deletes = <<>> /\ Len(channel) > PageSize

\* ------------------------------------------------------------------- C27
\* C27: when messages are added to or removed from the channel between two
\* page fetches of a before- or after-mode iterator, the iterator still
\* yields no message twice and the ids it yields stay strictly descending
\* (before) or strictly ascending (after), all of them beyond the
\* constructor's cursor.
C27_MonotonicUnderChange ==
    (args.op = "history" /\ Mode # "around") =>
      /\ Cardinality(Range(Ids(yielded))) = Len(yielded)
      /\ Mode = "before" =>
           /\ IsDescending(Ids(yielded))
           /\ \A i \in 1..Len(yielded) :
                args.before = MISSING \/ yielded[i].id < args.before
      /\ Mode = "after" =>
           /\ IsAscending(Ids(yielded))
           /\ \A i \in 1..Len(yielded) : yielded[i].id > args.after

\* an after-mode iteration that went on to a message posted after its first
\* fetch, the channel having lost a message as well
C27_Witness ==
    /\ args.op = "history" /\ Mode = "after" /\ changes = MaxChanges
    /\ Len(Gets) >= 2 /\ Len(yielded) >= 2
    /\ yielded[Len(yielded)] \in NewMessages
    /\ \E i \in 1..Len(yielded) : yielded[i].id \notin Range(Ids(channel))

\* ------------------------------------------------------------------- C28
\* C28: when no scanned message qualifies (the channel is empty, the
\* predicate rejects every message, every message is too old, or every
\* message is a loading message of the bot), purge makes no delete request
\* of either kind and returns 0.
C28_NothingQualifies ==
    (args.op = "purge" /\ \A i \in 1..Len(yielded) : ~Qualifies(yielded[i])) =>
      /\ to_delete = <<>> /\ selected = <<>>
      /\ Deletes = <<>> /\ pc # "delete"
      /\ count = 0
      /\ (pc = "raised" => ~Gets[Len(Gets)].ok)

\* a purge that scanned a hundred messages and more, all of them too old,
\* and returned 0 without a delete request
C28_Witness ==
    /\ args.op = "purge" /\ pc = "done" /\ count = 0 /\ Deletes = <<>>
    /\ Len(yielded) > PageSize /\ args.predicate = "MISSING"
    /\ \A i \in 1..Len(yielded) : TimestampOf(yielded[i].id) < CutoffMs

\* ------------------------------------------------------------------- C29
\* C29: the loading skip of purge applies only when avoid_loading_msg is
\* true, the author is the bot's own account and the LOADING flag is set,
\* all three: a LOADING message of another author, a message of the bot
\* without the flag, and any LOADING message when avoid_loading_msg is false
\* are accumulated like every other message that passes the predicate and
\* the age check (deletion_limit = 0, so that nothing is left out for the
\* limit).
C29_LoadingSkip ==
    (args.op = "purge" /\ args.deletion_limit = 0) =>
      \A i \in 1..Len(yielded) :
        (/\ args.predicate = "MISSING" \/ yielded[i].author = "userX"
         /\ TimestampOf(yielded[i].id) >= CutoffMs)
        => (yielded[i].id \in Range(selected)
              <=> ~(/\ args.avoid_loading_msg
                    /\ yielded[i].author = ClientUser
                    /\ LOADING \in yielded[i].flags))

\* a purge with avoid_loading_msg that deleted a LOADING message of another
\* author and a message of the bot without the flag, and kept a recent
\* LOADING message of the bot
C29_Witness ==
    /\ args.op = "purge" /\ args.deletion_limit = 0 /\ pc = "done"
    /\ args.avoid_loading_msg /\ args.predicate = "MISSING"
    /\ \E i \in 1..Len(yielded) :
         /\ yielded[i].author # ClientUser /\ LOADING \in yielded[i].flags
         /\ yielded[i].id \in DeletedIds
    /\ \E i \in 1..Len(yielded) :
         /\ yielded[i].author = ClientUser /\ yielded[i].flags = {}
         /\ yielded[i].id \in DeletedIds
    /\ \E i \in 1..Len(yielded) :
         /\ yielded[i].author = ClientUser /\ LOADING \in yielded[i].flags
         /\ TimestampOf(yielded[i].id) >= CutoffMs
         /\ yielded[i].id \notin DeletedIds

\* ------------------------------------------------------------------- C30
\* C30: when the iterator is constructed with more than one of before,
\* after and around, every fetch works in one mode only, chosen by the
\* precedence after over around over before: each request carries the cursor
\* of that mode alone, and the values of the cursors of lower precedence are
\* never sent to the server.
C30_Precedence ==
    args.op \in {"history", "purge"} =>
      \A i \in 1..Len(Gets) :
        /\ args.after # MISSING =>
             /\ Gets[i].after # MISSING
             /\ Gets[i].around = MISSING /\ Gets[i].before = MISSING
             /\ (i = 1 => Gets[i].after = args.after)
        /\ (args.after = MISSING /\ args.around # MISSING) =>
             /\ Gets[i].around = args.around
             /\ Gets[i].after = MISSING /\ Gets[i].before = MISSING
        /\ (args.after = MISSING /\ args.around = MISSING) =>
             /\ Gets[i].after = MISSING /\ Gets[i].around = MISSING
             /\ (i = 1 => Gets[i].before = args.before)

\* an iteration constructed with all three cursors that ran in after mode
\* over two fetches
C30_Witness ==
    /\ args.op = "history" /\ pc = "done" /\ Len(Gets) = 2
    /\ args.after # MISSING /\ args.around # MISSING /\ args.before # MISSING
    /\ Gets[1].after = args.after /\ Gets[2].after = yielded[Len(yielded)].id
    /\ \E i \in 1..Len(yielded) : yielded[i].id > args.before

====
